---- MODULE Spec2Model ----
(***************************************************************************)
(* Model of cranker-expense (src/src/main.rs): the epoch-bounded history   *)
(* crawler and aggregation engine.  One run of main() is a state machine:  *)
(* for each address, page through the signature feed, filter by slot       *)
(* range, fetch the details of a chunk concurrently, merge the joined      *)
(* results into the per-account ledger, fold the account into the          *)
(* cross-account ledger, and finally sort and export.                      *)
(***************************************************************************)
EXTENDS Integers, Sequences, FiniteSets, TLC

VARIABLES
    args,                   \* parsed command line (Args)
    addr_idx,               \* 1-based index into args.address
    pc,                     \* position of main()
    history,                \* feed: the part of the account's history served so far, newest first
    history_ends,           \* feed: no entry is older than those served
    before,                 \* Option<Signature>: the pagination cursor
    should_break,           \* the exhausted signal
    signatures,             \* the page just returned, unfiltered
    chunks,                 \* chunks of the filtered page not yet dispatched
    chunk,                  \* the chunk being fetched
    results,                \* task index -> None while in flight, Some(join result) after
    program_expenses,       \* per-account ledger: (epoch, program) -> record
    total_fees,             \* per-account fee total
    processed,              \* per-account transaction total
    all_program_expenses,   \* cross-account ledger
    grand_total_fees,
    grand_total_processed,
    exported,               \* Option<rows written by export_to_csv>
    exit,                   \* how main() ended: "", "Ok", "Err:<kind>", "Panic"
    requests,               \* log: page requests of the current account
    fetches,                \* log: entries a detail fetch was spawned for
    joined,                 \* log: (entry, detail result if any) of each merged task, current account
    touches,                \* log: program-id entries merged in this run and their fees,
                            \*      fetches that resolved in this run and their fees
    done_totals,            \* log: (processed, total_fees) of each finished account
    budget                  \* entries the feed may still serve in this run

vars == <<args, addr_idx, pc, history, history_ends, before, should_break, signatures, chunks,
          chunk, results, program_expenses, total_fees, processed,
          all_program_expenses, grand_total_fees, grand_total_processed,
          exported, exit, requests, fetches, joined, touches, done_totals,
          budget>>

(***************************************************************************)
(* Bounds of the model and constants of the program.                       *)
(***************************************************************************)
SLOTS_PER_EPOCH == 432000

\* limit: Some(1000) in the code; scaled down so that histories of a few
\* entries span several pages.
PageLimit == 3

\* Entries the feed serves over one run, all accounts together.
MaxEntries == 3

\* Length of args.address.
MaxAccounts == 2

\* args.concurrency ranges over 1..MaxConcurrency.
MaxConcurrency == 2

\* args.start_epoch <= args.end_epoch range over 1..MaxEpoch.
MaxEpoch == 2

None == <<>>
Some(x) == <<x>>
IsSome(o) == o # <<>>
Unwrap(o) == o[1]

Min(a, b) == IF a <= b THEN a ELSE b

RECURSIVE SumSeq(_)
SumSeq(s) == IF s = <<>> THEN 0 ELSE Head(s) + SumSeq(Tail(s))

RECURSIVE SeqToSet(_)
SeqToSet(s) == IF s = <<>> THEN {} ELSE {Head(s)} \cup SeqToSet(Tail(s))

(***************************************************************************)
(* Inputs.                                                                 *)
(***************************************************************************)
\* Address strings: "A" and "B" decode to a public key, "bad" does not.
Addresses == {"A", "B", "bad"}

\* Pubkey::from_str: the decoded key, or None.
PubkeyFromStr(address) ==
    IF address \in {"A", "B"} THEN Some(<<"pubkey", address>>) ELSE None

\* A signature string is modelled by an integer: s > 0 is the base-58 text of
\* the 64-byte signature number s, s <= 0 is a text that is no signature.
\* Signature::from_str: the signature, or None.
SignatureFromStr(s) == IF s > 0 THEN Some(<<"sig", s>>) ELSE None

\* Signature -> string, as the RPC client serialises the before cursor.
SignatureToString(sig) == sig[2]

\* The configurations the command line may supply: a non-empty address list,
\* concurrency > 0, start_epoch <= end_epoch.  "A" and "B" are interchangeable,
\* so the lists that start with "B" are left to their mirror images.
ArgsSet ==
    { r \in [address : UNION { [1..n -> Addresses] : n \in 1..MaxAccounts },
             concurrency : 1..MaxConcurrency,
             start_epoch : 1..MaxEpoch,
             end_epoch : 1..MaxEpoch] :
        /\ r.start_epoch <= r.end_epoch
        /\ r.address[1] # "B" }

min_slot == args.start_epoch * SLOTS_PER_EPOCH
max_slot == (args.end_epoch + 1) * SLOTS_PER_EPOCH - 1

\* Slots the feed uses: the first slot of the epochs 1..MaxEpoch+1 and the last
\* slot of the epochs 0..MaxEpoch-1, which include min_slot - 1 and min_slot of
\* every window and max_slot and max_slot + 1 of the windows that end early.
SlotChoices ==
    { e * SLOTS_PER_EPOCH : e \in 1..(MaxEpoch + 1) } \cup
    { e * SLOTS_PER_EPOCH - 1 : e \in 1..MaxEpoch }

(***************************************************************************)
(* The RPC source's answers to get_transaction.                            *)
(***************************************************************************)
ParsedIx(p) == [kind |-> "Parsed", program_id |-> p, program_id_index |-> 0]
PartialIx(p) == [kind |-> "PartiallyDecoded", program_id |-> p, program_id_index |-> 0]
CompiledIx(i) == [kind |-> "Compiled", program_id |-> "", program_id_index |-> i]

Tx(meta, encoding, msgkind, ixs, keys) ==
    [ok |-> TRUE, meta |-> meta, encoding |-> encoding,
     message |-> [kind |-> msgkind, instructions |-> ixs, account_keys |-> keys]]

RpcErr ==
    [ok |-> FALSE, meta |-> None, encoding |-> "",
     message |-> [kind |-> "", instructions |-> <<>>, account_keys |-> <<>>]]

TxResponses ==
    { Tx(None, "Json", "Parsed", <<ParsedIx("P1")>>, <<"P1">>),
      Tx(Some(7), "Json", "Parsed", <<PartialIx("P1"), CompiledIx(1)>>, <<"P1", "P2">>),
      Tx(Some(3), "Json", "Raw", <<CompiledIx(0), CompiledIx(0)>>, <<"P1">>),
      Tx(Some(5), "Json", "Parsed", <<CompiledIx(4)>>, <<"P1", "P2">>),
      Tx(Some(9), "Json", "Raw", <<CompiledIx(2)>>, <<"P1", "P2">>),
      Tx(Some(9), "Binary", "", <<>>, <<>>),
      RpcErr }

(***************************************************************************)
(* The signature feed (get_signatures_for_address, an RPC of the node).    *)
(***************************************************************************)
\* Index of the entry the cursor names, 0 for no cursor (or an unknown one).
CursorIndex(h, cursor) ==
    IF cursor = None THEN 0
    ELSE LET hit == { i \in 1..Len(h) : h[i].signature = SignatureToString(Unwrap(cursor)) }
         IN  IF hit = {} THEN 0 ELSE CHOOSE i \in hit : TRUE

\* The entries older than the cursor.
OlderThan(h, cursor) == SubSeq(h, CursorIndex(h, cursor) + 1, Len(h))

\* The entries that may follow h in a history: no newer than its last entry,
\* and signed by position.  The node serialises the signatures it holds, so
\* every signature string it serves parses.
NextEntries(h) ==
    { [signature |-> Len(h) + 1, slot |-> sl] :
        sl \in { x \in SlotChoices : h = <<>> \/ x <= h[Len(h)].slot } }

\* The histories that extend h by n entries.
RECURSIVE Extensions(_, _)
Extensions(h, n) ==
    IF n = 0 THEN {h}
    ELSE UNION { Extensions(Append(h, e), n - 1) : e \in NextEntries(h) }

\* The answers the feed may give to a request with this cursor, each with the
\* history served after it and whether the history is known to end there.  A
\* page is the next n entries older than the cursor, 1 <= n <= limit; it is
\* empty only when no entry is older.  Entries older than those served so far
\* are fixed by the chain; the model draws them when they are first served,
\* at most `left` of them.
FeedAnswers(h, ends, cursor, limit, left) ==
    LET rest == OlderThan(h, cursor)
    IN  IF rest # <<>>
        THEN { [page |-> SubSeq(rest, 1, n), history |-> h, ends |-> ends] :
                 n \in 1..Min(limit, Len(rest)) }
        ELSE (IF ends THEN {}
              ELSE { [page |-> SubSeq(g, Len(h) + 1, Len(g)), history |-> g, ends |-> FALSE] :
                       g \in UNION { Extensions(h, n) : n \in 1..Min(limit, left) } })
             \cup { [page |-> <<>>, history |-> h, ends |-> TRUE] }

\* A cursor taken from the first (newest) entry of the page.
NextCursor_FirstEntry(page) == SignatureFromStr(page[1].signature)

(***************************************************************************)
(* Paginator and range filter (main, lines 118-146).                       *)
(***************************************************************************)
\* A cursor taken from the filtered page: the last entry that passed the
\* filter, the old cursor when none did.
NextCursor_AfterFilter(page) ==
    LET kept == SelectSeq(page, LAMBDA sig : min_slot <= sig.slot /\ sig.slot <= max_slot)
    IN  IF kept = <<>> THEN (IF before = None THEN SignatureFromStr(page[1].signature) ELSE before)
        ELSE SignatureFromStr(kept[Len(kept)].signature)

\* before = signatures.last().map(|s| Signature::from_str(&s.signature).unwrap())
\* None here stands for the unwrap's panic; the page is not empty.
NextCursor(page) == SignatureFromStr(page[Len(page)].signature)

\* A filter without the upper end of the window.
KeepsEntry_NoUpperBound(sig, lo, hi) == sig.slot >= lo

\* A filter that takes max_slot for an exclusive bound.
KeepsEntry_ExclusiveMax(sig, lo, hi) ==
    IF sig.slot < lo THEN FALSE
    ELSE IF sig.slot < hi THEN TRUE
    ELSE FALSE

\* The filter_map's closure on one entry: whether the entry is kept.
KeepsEntry(sig, lo, hi) ==
    IF sig.slot < lo THEN FALSE
    ELSE IF sig.slot <= hi THEN TRUE
    ELSE FALSE

\* The filter_map's closure on one entry: whether it sets should_break.
SetsBreak(sig, lo) == sig.slot < lo

\* valid_signatures
RangeFilter(page, lo, hi) == SelectSeq(page, LAMBDA sig : KeepsEntry(sig, lo, hi))

\* should_break after the filter has run over the page.
BreakAfter(sb, page, lo) == sb \/ \E i \in 1..Len(page) : SetsBreak(page[i], lo)

\* A partition that puts all entries into one chunk, whatever the size.
Chunks_Whole(s, size) == IF s = <<>> THEN <<>> ELSE <<s>>

\* valid_signatures.chunks(chunk_size).map(|c| c.to_vec()).collect()
RECURSIVE Chunks(_, _)
Chunks(s, size) ==
    IF s = <<>> THEN <<>>
    ELSE IF Len(s) <= size THEN <<s>>
    ELSE <<SubSeq(s, 1, size)>> \o Chunks(SubSeq(s, size + 1, Len(s)), size)

(***************************************************************************)
(* Detail fetcher: the body of one spawned task (main, lines 173-236).     *)
(***************************************************************************)
\* One instruction of a parsed message.
ParsedProgramId(ix, keys) ==
    IF ix.kind \in {"Parsed", "PartiallyDecoded"} THEN <<ix.program_id>>
    ELSE IF ix.program_id_index < Len(keys) THEN <<keys[ix.program_id_index + 1]>>
    ELSE <<>>

\* One instruction of a raw message.
RawProgramId(ix, keys) ==
    IF ix.program_id_index < Len(keys) THEN <<keys[ix.program_id_index + 1]>>
    ELSE <<>>

RECURSIVE ProgramIdsOf(_, _, _)
ProgramIdsOf(msgkind, ixs, keys) ==
    IF ixs = <<>> THEN <<>>
    ELSE (IF msgkind = "Parsed" THEN ParsedProgramId(Head(ixs), keys)
          ELSE RawProgramId(Head(ixs), keys))
         \o ProgramIdsOf(msgkind, Tail(ixs), keys)

\* The task's value: Some((slot, fee, program_ids)) or None.
FetchDetail(signature_str, slot, tx) ==
    IF SignatureFromStr(signature_str) = None THEN None
    ELSE IF ~tx.ok THEN None
    ELSE LET fee == IF IsSome(tx.meta) THEN Unwrap(tx.meta) ELSE 0
             program_ids ==
                 IF tx.encoding = "Json"
                 THEN ProgramIdsOf(tx.message.kind, tx.message.instructions,
                                   tx.message.account_keys)
                 ELSE <<>>
         IN  IF tx.encoding = "Json" /\ program_ids # <<>>
             THEN Some([slot |-> slot, fee |-> fee, program_ids |-> program_ids])
             ELSE None

\* What join_all hands back for one task: Ok(value) or Err(JoinError).
TaskOk(v) == [ok |-> TRUE, val |-> v]
JoinError == [ok |-> FALSE, val |-> None]

(***************************************************************************)
(* Aggregator (main, lines 243-266) and the second fold (lines 276-292).   *)
(***************************************************************************)
EmptyLedger == [k \in {} |-> 0]

ProgramExpense(account, epoch, program_id, count, fees) ==
    [account |-> account, epoch |-> epoch, program_id |-> program_id,
     transaction_count |-> count, total_fees_lamports |-> fees]

\* A merge that ignores a result whose key the ledger already holds.
MergeProgram_OncePerKey(pe, address, epoch, fee, program_id) ==
    LET key == <<epoch, program_id>>
    IN  [k \in DOMAIN pe \cup {key} |->
            IF k \in DOMAIN pe THEN pe[k]
            ELSE ProgramExpense(address, epoch, program_id, 1, fee)]

\* A merge whose and_modify keeps the fee of the latest transaction instead of
\* adding it.
MergeProgram_LastFee(pe, address, epoch, fee, program_id) ==
    LET key == <<epoch, program_id>>
    IN  [k \in DOMAIN pe \cup {key} |->
            IF k # key THEN pe[k]
            ELSE IF key \in DOMAIN pe
                 THEN [pe[key] EXCEPT !.transaction_count = @ + 1,
                                      !.total_fees_lamports = fee]
                 ELSE ProgramExpense(address, epoch, program_id, 1, fee)]

\* program_expenses.entry((epoch, program_id)).and_modify(..).or_insert(..)
MergeProgram(pe, address, epoch, fee, program_id) ==
    LET key == <<epoch, program_id>>
    IN  [k \in DOMAIN pe \cup {key} |->
            IF k # key THEN pe[k]
            ELSE IF key \in DOMAIN pe
                 THEN [pe[key] EXCEPT !.transaction_count = @ + 1,
                                      !.total_fees_lamports = @ + fee]
                 ELSE ProgramExpense(address, epoch, program_id, 1, fee)]

\* for program_id in program_ids { .. }
RECURSIVE MergePrograms(_, _, _, _, _)
MergePrograms(pe, address, epoch, fee, program_ids) ==
    IF program_ids = <<>> THEN pe
    ELSE MergePrograms(MergeProgram(pe, address, epoch, fee, Head(program_ids)),
                       address, epoch, fee, Tail(program_ids))

\* slot / SLOTS_PER_EPOCH
EpochOf(slot) == slot \div SLOTS_PER_EPOCH

\* An iteration that adds to the totals once per program-id entry.
MergeResult_TotalsPerProgram(acc, address, result) ==
    IF result.ok /\ IsSome(result.val)
    THEN LET r == Unwrap(result.val)
         IN  [program_expenses |->
                  MergePrograms(acc.program_expenses, address, EpochOf(r.slot),
                                r.fee, r.program_ids),
              total_fees |-> acc.total_fees + r.fee * Len(r.program_ids),
              processed |-> acc.processed + Len(r.program_ids)]
    ELSE acc

\* One iteration of `for result in results`; acc holds the three accumulators.
MergeResult(acc, address, result) ==
    IF result.ok /\ IsSome(result.val)
    THEN LET r == Unwrap(result.val)
         IN  [program_expenses |->
                  MergePrograms(acc.program_expenses, address, EpochOf(r.slot),
                                r.fee, r.program_ids),
              total_fees |-> acc.total_fees + r.fee,
              processed |-> acc.processed + 1]
    ELSE acc

\* A merge loop that a task without a result ends: the results after it are
\* dropped.
RECURSIVE MergeResults_StopAtNone(_, _, _)
MergeResults_StopAtNone(acc, address, rs) ==
    IF rs = <<>> THEN acc
    ELSE IF ~(Head(rs).ok /\ IsSome(Head(rs).val)) THEN acc
    ELSE MergeResults_StopAtNone(MergeResult(acc, address, Head(rs)), address, Tail(rs))

RECURSIVE MergeResults(_, _, _)
MergeResults(acc, address, rs) ==
    IF rs = <<>> THEN acc
    ELSE MergeResults(MergeResult(acc, address, Head(rs)), address, Tail(rs))

\* A fold keyed by (epoch, program) only: the records of all accounts with
\* that epoch and program are added into one.
FoldInto_ByProgram(all, pe) ==
    LET KeyOf(e) == <<"", e.epoch, e.program_id>>
        moved == { KeyOf(pe[k]) : k \in DOMAIN pe }
        From(g) == pe[CHOOSE k \in DOMAIN pe : KeyOf(pe[k]) = g]
    IN  [g \in DOMAIN all \cup moved |->
            IF g \notin moved THEN all[g]
            ELSE IF g \in DOMAIN all
                 THEN [all[g] EXCEPT
                         !.transaction_count = @ + From(g).transaction_count,
                         !.total_fees_lamports = @ + From(g).total_fees_lamports]
                 ELSE From(g)]

\* A fold that replaces the record of a key already present instead of adding
\* to it.
FoldInto_Overwrite(all, pe) ==
    LET KeyOf(e) == <<e.account, e.epoch, e.program_id>>
        moved == { KeyOf(pe[k]) : k \in DOMAIN pe }
        From(g) == pe[CHOOSE k \in DOMAIN pe : KeyOf(pe[k]) = g]
    IN  [g \in DOMAIN all \cup moved |-> IF g \notin moved THEN all[g] ELSE From(g)]

\* for (_, expense) in program_expenses { all_program_expenses.entry(..) .. }
\* Distinct records of one account have distinct keys, so the map's iteration
\* order does not show in the result.
FoldInto(all, pe) ==
    LET KeyOf(e) == <<e.account, e.epoch, e.program_id>>
        moved == { KeyOf(pe[k]) : k \in DOMAIN pe }
        From(g) == pe[CHOOSE k \in DOMAIN pe : KeyOf(pe[k]) = g]
    IN  [g \in DOMAIN all \cup moved |->
            IF g \notin moved THEN all[g]
            ELSE IF g \in DOMAIN all
                 THEN [all[g] EXCEPT
                         !.transaction_count = @ + From(g).transaction_count,
                         !.total_fees_lamports = @ + From(g).total_fees_lamports]
                 ELSE From(g)]

(***************************************************************************)
(* Reporting and export (main, lines 313-358; export_to_csv).              *)
(***************************************************************************)
\* b.epoch.cmp(&a.epoch).then(b.total_fees_lamports.cmp(&a.total_fees_lamports))
\* is not Greater: a may stand before b.
SortsBefore(a, b) ==
    \/ a.epoch > b.epoch
    \/ a.epoch = b.epoch /\ a.total_fees_lamports >= b.total_fees_lamports

\* The orders expenses.sort_by may leave: the map's iteration order is
\* arbitrary and the sort is stable, so ties can come out either way.
RECURSIVE SortedOrders(_)
SortedOrders(S) ==
    IF S = {} THEN {<<>>}
    ELSE UNION { { <<m>> \o rest : rest \in SortedOrders(S \ {m}) } :
                 m \in { x \in S : \A y \in S : SortsBefore(x, y) } }

LAMPORTS_PER_SOL == 1000000000

\* One line of the file: the five columns and lamports / 1e9 to 9 digits,
\* written as (whole part, fractional digits).
CsvRow(expense) ==
    [account |-> expense.account, epoch |-> expense.epoch,
     program_id |-> expense.program_id,
     transaction_count |-> expense.transaction_count,
     total_fees_lamports |-> expense.total_fees_lamports,
     total_fees_sol |-> <<expense.total_fees_lamports \div LAMPORTS_PER_SOL,
                          expense.total_fees_lamports % LAMPORTS_PER_SOL>>]

CsvRows(expenses) == [i \in 1..Len(expenses) |-> CsvRow(expenses[i])]

(***************************************************************************)
(* The orchestrator: main() as a state machine.                            *)
(***************************************************************************)
Address == args.address[addr_idx]

\* Tasks of the current chunk that have not completed.
InFlight == { i \in DOMAIN results : results[i] = None }

\* A loop that takes an empty filtered page for the end of the history.
AfterFilter_StopOnEmpty(valid_signatures, sb) ==
    IF valid_signatures = <<>> THEN "DONE" ELSE "DISPATCHING"

\* A loop that breaks as soon as the filter has set the signal, before the
\* page's in-range entries are dispatched.
AfterFilter_BreakFirst(valid_signatures, sb) ==
    IF sb THEN "DONE"
    ELSE IF valid_signatures = <<>> THEN "FETCHING_PAGE"
    ELSE "DISPATCHING"

\* After the filter (lines 141-146): break, continue, or go on to dispatch.
AfterFilter(valid_signatures, sb) ==
    IF valid_signatures = <<>>
    THEN (IF sb THEN "DONE" ELSE "FETCHING_PAGE")
    ELSE "DISPATCHING"

\* A loop that stops after the first page it has processed.
AfterChunks_AlwaysBreak(sb) == "DONE"

\* After the last chunk (lines 271-273): if should_break { break; }
AfterChunks(sb) == IF sb THEN "DONE" ELSE "FETCHING_PAGE"

Accumulators == [program_expenses |-> program_expenses,
                 total_fees |-> total_fees, processed |-> processed]

\* The detail results among join results, in order.
RECURSIVE Resolved(_)
Resolved(rs) ==
    IF rs = <<>> THEN <<>>
    ELSE (IF Head(rs).ok /\ IsSome(Head(rs).val) THEN <<Unwrap(Head(rs).val)>> ELSE <<>>)
         \o Resolved(Tail(rs))

Init ==
    /\ args \in ArgsSet
    /\ addr_idx = 1
    /\ pc = "START"
    /\ history = <<>>
    /\ history_ends = FALSE
    /\ before = None
    /\ should_break = FALSE
    /\ signatures = <<>>
    /\ chunks = <<>>
    /\ chunk = <<>>
    /\ results = <<>>
    /\ program_expenses = EmptyLedger
    /\ total_fees = 0
    /\ processed = 0
    /\ all_program_expenses = EmptyLedger
    /\ grand_total_fees = 0
    /\ grand_total_processed = 0
    /\ exported = None
    /\ exit = ""
    /\ requests = <<>>
    /\ fetches = <<>>
    /\ joined = <<>>
    /\ touches = [count |-> 0, fees |-> 0, resolved |-> 0, resolved_fees |-> 0]
    /\ done_totals = <<>>
    /\ budget = MaxEntries

\* A loop body that starts the crawl without decoding the address.
StartAccount_Unchecked ==
    /\ pc = "START"
    /\ pc' = "FETCHING_PAGE"
    /\ UNCHANGED <<args, addr_idx, history, history_ends, before, should_break,
                   signatures, chunks, chunk, results, program_expenses,
                   total_fees, processed, all_program_expenses, grand_total_fees,
                   grand_total_processed, exported, exit, requests, fetches, joined,
                   touches, done_totals, budget>>

\* Top of the `for address` body: decode the address (`?` returns its error
\* from main), initialise the per-account state (lines 80-98).
StartAccount ==
    /\ pc = "START"
    /\ IF PubkeyFromStr(Address) = None
       THEN /\ pc' = "EXIT"
            /\ exit' = "Err:MalformedAddress"
       ELSE /\ pc' = "FETCHING_PAGE"
            /\ exit' = exit
    /\ UNCHANGED <<args, addr_idx, history, history_ends, before, should_break,
                   signatures, chunks, chunk, results, program_expenses,
                   total_fees, processed, all_program_expenses, grand_total_fees,
                   grand_total_processed, exported, requests, fetches, joined,
                   touches, done_totals, budget>>

\* A loop that takes a failed page request for the end of the history.
PageFetchFails_Swallowed ==
    /\ pc = "FETCHING_PAGE"
    /\ requests' = Append(requests, [before |-> before, ok |-> FALSE, page |-> <<>>])
    /\ pc' = "DONE"
    /\ UNCHANGED <<args, addr_idx, history, history_ends, before, should_break,
                   signatures, chunks, chunk, results, program_expenses,
                   total_fees, processed, all_program_expenses, grand_total_fees,
                   grand_total_processed, exported, exit, fetches, joined, touches,
                   done_totals, budget>>

\* The page request fails: `.await?` returns the error from main.
PageFetchFails ==
    /\ pc = "FETCHING_PAGE"
    /\ requests' = Append(requests, [before |-> before, ok |-> FALSE, page |-> <<>>])
    /\ pc' = "EXIT"
    /\ exit' = "Err:PageFetch"
    /\ UNCHANGED <<args, addr_idx, history, history_ends, before, should_break,
                   signatures, chunks, chunk, results, program_expenses,
                   total_fees, processed, all_program_expenses, grand_total_fees,
                   grand_total_processed, exported, fetches, joined, touches,
                   done_totals, budget>>

\* The page request returns: empty-page break, cursor advance, range filter,
\* stop rule, chunking (lines 102-160).
PageReturns ==
    /\ pc = "FETCHING_PAGE"
    /\ \E answer \in FeedAnswers(history, history_ends, before, PageLimit, budget) :
        LET page == answer.page IN
        /\ history' = answer.history
        /\ history_ends' = answer.ends
        /\ budget' = budget - (Len(answer.history) - Len(history))
        /\ requests' = Append(requests, [before |-> before, ok |-> TRUE, page |-> page])
        /\ signatures' = page
        /\ IF page = <<>>
           THEN /\ pc' = "DONE"
                /\ UNCHANGED <<before, should_break, chunks, exit>>
           ELSE IF NextCursor(page) = None
           THEN /\ pc' = "EXIT"
                /\ exit' = "Panic"
                /\ UNCHANGED <<before, should_break, chunks>>
           ELSE LET sb == BreakAfter(should_break, page, min_slot)
                    valid_signatures == RangeFilter(page, min_slot, max_slot)
                IN  /\ before' = NextCursor(page)
                    /\ should_break' = sb
                    /\ exit' = exit
                    /\ pc' = AfterFilter(valid_signatures, sb)
                    /\ chunks' = Chunks(valid_signatures, args.concurrency)
    /\ UNCHANGED <<args, addr_idx, chunk, results, program_expenses, total_fees,
                   processed, all_program_expenses, grand_total_fees,
                   grand_total_processed, exported, fetches, joined, touches,
                   done_totals>>

\* `for chunk in chunks`: spawn one task per entry of the next chunk.
SpawnChunk ==
    /\ pc = "DISPATCHING"
    /\ chunk' = Head(chunks)
    /\ chunks' = Tail(chunks)
    /\ results' = [i \in 1..Len(Head(chunks)) |-> None]
    /\ fetches' = fetches \o Head(chunks)
    /\ pc' = "JOINING"
    /\ UNCHANGED <<args, addr_idx, history, history_ends, before, should_break,
                   signatures, program_expenses, total_fees, processed,
                   all_program_expenses, grand_total_fees, grand_total_processed,
                   exported, exit, requests, joined, touches, done_totals, budget>>

\* A task that adds its own result to the ledger and the totals when it ends.
TaskCompletes_MergesItself(i) ==
    /\ pc = "JOINING"
    /\ i \in InFlight
    /\ \E tx \in TxResponses :
          LET r == TaskOk(FetchDetail(chunk[i].signature, chunk[i].slot, tx))
              acc == MergeResult(Accumulators, Address, r)
          IN  /\ results' = [results EXCEPT ![i] = Some(TaskOk(None))]
              /\ program_expenses' = acc.program_expenses
              /\ total_fees' = acc.total_fees
              /\ processed' = acc.processed
    /\ UNCHANGED <<args, addr_idx, pc, history, history_ends, before, should_break,
                   signatures, chunks, chunk, all_program_expenses, grand_total_fees,
                   grand_total_processed, exported, exit, requests, fetches,
                   joined, touches, done_totals, budget>>

\* One spawned task runs to its end on the node's answer tx.
TaskCompletes(i) ==
    /\ pc = "JOINING"
    /\ i \in InFlight
    /\ \E tx \in TxResponses :
          results' = [results EXCEPT
                        ![i] = Some(TaskOk(FetchDetail(chunk[i].signature, chunk[i].slot, tx)))]
    /\ UNCHANGED <<args, addr_idx, pc, history, history_ends, before, should_break,
                   signatures, chunks, chunk, program_expenses, total_fees,
                   processed, all_program_expenses, grand_total_fees,
                   grand_total_processed, exported, exit, requests, fetches,
                   joined, touches, done_totals, budget>>

\* One spawned task dies (panics or is cancelled): its join result is Err.
TaskFails(i) ==
    /\ pc = "JOINING"
    /\ i \in InFlight
    /\ results' = [results EXCEPT ![i] = Some(JoinError)]
    /\ UNCHANGED <<args, addr_idx, pc, history, history_ends, before, should_break,
                   signatures, chunks, chunk, program_expenses, total_fees,
                   processed, all_program_expenses, grand_total_fees,
                   grand_total_processed, exported, exit, requests, fetches,
                   joined, touches, done_totals, budget>>

\* join_all has every result, in task order: merge them, then the next chunk
\* or the end of the loop body (lines 241-273).
MergeChunk ==
    /\ pc = "JOINING"
    /\ InFlight = {}
    /\ LET rs == [i \in 1..Len(results) |-> Unwrap(results[i])]
           acc == MergeResults(Accumulators, Address, rs)
           details == Resolved(rs)
       IN  /\ program_expenses' = acc.program_expenses
           /\ total_fees' = acc.total_fees
           /\ processed' = acc.processed
           /\ joined' = joined \o [i \in 1..Len(rs) |->
                                       [entry |-> chunk[i], detail |-> Resolved(<<rs[i]>>)]]
           /\ touches' =
                [count |-> touches.count
                             + SumSeq([i \in 1..Len(details) |-> Len(details[i].program_ids)]),
                 fees |-> touches.fees
                             + SumSeq([i \in 1..Len(details) |->
                                          details[i].fee * Len(details[i].program_ids)]),
                 resolved |-> touches.resolved + Len(details),
                 resolved_fees |-> touches.resolved_fees
                             + SumSeq([i \in 1..Len(details) |-> details[i].fee])]
    /\ chunk' = <<>>
    /\ results' = <<>>
    /\ pc' = IF chunks # <<>> THEN "DISPATCHING" ELSE AfterChunks(should_break)
    /\ UNCHANGED <<args, addr_idx, history, history_ends, before, should_break,
                   signatures, chunks, all_program_expenses, grand_total_fees,
                   grand_total_processed, exported, exit, requests, fetches,
                   done_totals, budget>>

\* After the loop: fold the account into the cross-account ledger and totals,
\* then the next address (lines 276-299).  The per-account locals go out of
\* scope at the end of the `for` body and are fresh for the next address.
FoldAccount ==
    /\ pc = "DONE"
    /\ all_program_expenses' = FoldInto(all_program_expenses, program_expenses)
    /\ grand_total_fees' = grand_total_fees + total_fees
    /\ grand_total_processed' = grand_total_processed + processed
    /\ done_totals' = Append(done_totals, [processed |-> processed, total_fees |-> total_fees])
    /\ IF addr_idx < Len(args.address)
       THEN /\ addr_idx' = addr_idx + 1
            /\ pc' = "START"
       ELSE /\ addr_idx' = addr_idx
            /\ pc' = "REPORT"
    /\ history' = <<>>
    /\ history_ends' = FALSE
    /\ before' = None
    /\ should_break' = FALSE
    /\ signatures' = <<>>
    /\ chunks' = <<>>
    /\ program_expenses' = EmptyLedger
    /\ total_fees' = 0
    /\ processed' = 0
    /\ requests' = <<>>
    /\ fetches' = <<>>
    /\ joined' = <<>>
    /\ UNCHANGED <<args, chunk, results, exported, exit, touches, budget>>

\* Sort, display, export; main returns Ok, or the export's error (lines 301-358).
Report ==
    /\ pc = "REPORT"
    /\ \/ /\ \E expenses \in SortedOrders({ all_program_expenses[g] :
                                            g \in DOMAIN all_program_expenses }) :
                exported' = Some(CsvRows(expenses))
          /\ exit' = "Ok"
       \/ /\ exported' = None
          /\ exit' = "Err:Export"
    /\ pc' = "EXIT"
    /\ UNCHANGED <<args, addr_idx, history, history_ends, before, should_break,
                   signatures, chunks, chunk, results, program_expenses,
                   total_fees, processed, all_program_expenses, grand_total_fees,
                   grand_total_processed, requests, fetches, joined, touches,
                   done_totals, budget>>

Next ==
    \/ StartAccount
    \/ PageFetchFails
    \/ PageReturns
    \/ SpawnChunk
    \/ \E i \in DOMAIN results : TaskCompletes(i)
    \/ \E i \in DOMAIN results : TaskFails(i)
    \/ MergeChunk
    \/ FoldAccount
    \/ Report

Spec == Init /\ [][Next]_vars

\* The driver and every spawned task keep running: no step that can be taken
\* is postponed forever.
FairSpec == Spec /\ WF_vars(Next)

(***************************************************************************)
(* Properties.                                                             *)
(***************************************************************************)
Last(s) == s[Len(s)]

InRange(sig) == min_slot <= sig.slot /\ sig.slot <= max_slot

\* The entries of a page inside the window, in page order.
InRangeOf(page) == SelectSeq(page, InRange)

RECURSIVE Flatten(_)
Flatten(ss) == IF ss = <<>> THEN <<>> ELSE Head(ss) \o Flatten(Tail(ss))

\* This step is a page request that returned a non-empty page.
PageStep ==
    /\ Len(requests') = Len(requests) + 1
    /\ Last(requests').ok
    /\ Last(requests').page # <<>>

\* C1: in every account crawl the first page request carries no cursor, and
\* every later one carries the signature of the last entry of the page the
\* previous request returned, as returned (unfiltered), whatever part of that
\* page passed the slot-range filter.
C1_CursorFromUnfilteredPage ==
    \A k \in 1..Len(requests) :
        IF k = 1 THEN requests[k].before = None
        ELSE /\ requests[k - 1].ok
             /\ requests[k - 1].page # <<>>
             /\ IsSome(requests[k].before)
             /\ SignatureToString(Unwrap(requests[k].before))
                    = Last(requests[k - 1].page).signature

\* Three requests: none of page 1 passed the filter, some but not all of page 2 did.
C1_Witness ==
    /\ Len(requests) >= 3
    /\ InRangeOf(requests[1].page) = <<>>
    /\ InRangeOf(requests[2].page) \notin {<<>>, requests[2].page}

\* C2: when a non-empty page filters down to nothing and none of its entries
\* is below min_slot, the crawl goes back to request the next page with the
\* cursor advanced to that page's last entry; and in a finished crawl, a page
\* that lay entirely above max_slot was followed by another request whose
\* in-range entries were all dispatched and joined.
C2_ContinuesPastFilteredPage ==
    /\ [][ ( /\ PageStep
             /\ InRangeOf(Last(requests').page) = <<>>
             /\ \A i \in 1..Len(Last(requests').page) :
                    Last(requests').page[i].slot >= min_slot )
           => ( /\ pc' = "FETCHING_PAGE"
                /\ before' = SignatureFromStr(Last(Last(requests').page).signature) )
         ]_vars
    /\ [] ( pc = "DONE" =>
              \A k \in 1..Len(requests) :
                 ( /\ requests[k].page # <<>>
                   /\ \A i \in 1..Len(requests[k].page) :
                          requests[k].page[i].slot > max_slot )
                 => /\ k < Len(requests)
                    /\ \A i \in 1..Len(requests[k + 1].page) :
                          InRange(requests[k + 1].page[i])
                          => \E j \in 1..Len(joined) :
                                joined[j].entry = requests[k + 1].page[i] )

\* A finished 3-page crawl: page 2 entirely above max_slot, an entry of page 3
\* in range and aggregated.
C2_Witness ==
    /\ pc = "DONE"
    /\ Len(requests) >= 3
    /\ requests[2].page # <<>>
    /\ \A i \in 1..Len(requests[2].page) : requests[2].page[i].slot > max_slot
    /\ \E i \in 1..Len(requests[3].page) : InRange(requests[3].page[i])
    /\ processed >= 1
    /\ DOMAIN program_expenses # {}

\* C3: for every page the filter hands on exactly the entries with
\* min_slot <= slot <= max_slot, in page order, and the exhausted signal is set
\* by the page if and only if one of its entries has slot < min_slot; entries
\* above max_slot are dropped and do not set it.
C3_FilterSelectsWindow ==
    [][ PageStep =>
          /\ Flatten(chunks') = InRangeOf(Last(requests').page)
          /\ should_break' <=> \E i \in 1..Len(Last(requests').page) :
                                   Last(requests').page[i].slot < min_slot
      ]_vars

\* The page [max_slot + 1, max_slot, min_slot - 1] has been filtered: one entry
\* kept, one dropped above without the signal, the signal set by the third.
C3_Witness ==
    /\ Len(requests) >= 1
    /\ Len(Last(requests).page) = 3
    /\ Last(requests).page[1].slot = max_slot + 1
    /\ Last(requests).page[2].slot = max_slot
    /\ Last(requests).page[3].slot = min_slot - 1
    /\ should_break
    /\ Flatten(chunks) = <<Last(requests).page[2]>>

\* The task of this log record yielded a detail result.
IsResolved(j) == IsSome(j.detail)

\* C4: when a page holds both in-range entries and an entry below min_slot,
\* the crawl is DONE only after every in-range entry of that page has been
\* dispatched and joined and every one that resolved has been merged into the
\* per-account ledger and totals.
C4_MixedPageIsAggregated ==
    pc = "DONE" =>
        /\ processed = Cardinality({ j \in 1..Len(joined) : IsResolved(joined[j]) })
        /\ \A k \in 1..Len(requests) :
             (\E i \in 1..Len(requests[k].page) : requests[k].page[i].slot < min_slot)
             => \A i \in 1..Len(requests[k].page) :
                  InRange(requests[k].page[i])
                  => \E j \in 1..Len(joined) :
                       /\ joined[j].entry = requests[k].page[i]
                       /\ IsResolved(joined[j])
                          => \A n \in 1..Len(Unwrap(joined[j].detail).program_ids) :
                               LET key == <<EpochOf(joined[j].entry.slot),
                                            Unwrap(joined[j].detail).program_ids[n]>>
                               IN  /\ key \in DOMAIN program_expenses
                                   /\ program_expenses[key].transaction_count >= 1

\* DONE after a page with an in-range entry that resolved and an entry below
\* min_slot.
C4_Witness ==
    /\ pc = "DONE"
    /\ Len(requests) >= 1
    /\ \E i \in 1..Len(Last(requests).page) : Last(requests).page[i].slot < min_slot
    /\ \E i \in 1..Len(Last(requests).page) :
          /\ InRange(Last(requests).page[i])
          /\ \E j \in 1..Len(joined) :
                /\ joined[j].entry = Last(requests).page[i]
                /\ IsResolved(joined[j])
    /\ processed >= 1

\* C5: an account's crawl becomes DONE only on an empty page or with the
\* exhausted signal set; from DONE the run goes on to the next address or to
\* the report and issues no page request; and every crawl that starts reaches
\* DONE unless one of its page requests fails.
C5_DoneOnlyWhenExhausted ==
    /\ [][ (pc # "DONE" /\ pc' = "DONE")
           => \/ Last(requests').ok /\ Last(requests').page = <<>>
              \/ should_break' ]_vars
    /\ [][ pc = "DONE" => /\ pc' \in {"START", "REPORT"}
                          /\ Len(requests') <= Len(requests) ]_vars
    /\ (pc = "FETCHING_PAGE") ~> (pc = "DONE" \/ exit = "Err:PageFetch")

\* The second account is DONE by the exhausted signal after two pages.
C5_Witness ==
    /\ pc = "DONE"
    /\ addr_idx = 2
    /\ Len(requests) = 2
    /\ should_break

(***************************************************************************)
(* Fee attribution and the exported totals.                                *)
(***************************************************************************)
\* The detail result of a joined fetch that resolved.
DetailOf(j) == j.detail[1]

\* The resolved fetches of the current account, in merge order.
ResolvedJoined == SelectSeq(joined, IsResolved)

\* The resolved transactions of epoch e that invoke program p.
Invoking(e, p) ==
    { j \in 1..Len(joined) :
        /\ IsResolved(joined[j])
        /\ EpochOf(DetailOf(joined[j]).slot) = e
        /\ p \in SeqToSet(DetailOf(joined[j]).program_ids) }

\* C6: the record (e, P) of the per-account ledger counts every resolved
\* transaction of epoch e that invokes P once, and carries the sum of the fees
\* of these transactions, each fee once.
C6_OneIncrementPerDistinctProgram ==
    \A key \in DOMAIN program_expenses :
        LET txs == Invoking(key[1], key[2])
        IN  /\ program_expenses[key].transaction_count = Cardinality(txs)
            /\ program_expenses[key].total_fees_lamports
                 = SumSeq([j \in 1..Len(joined) |->
                             IF j \in txs THEN DetailOf(joined[j]).fee ELSE 0])

\* A transaction with two instructions of one program has been merged.
C6_Witness ==
    \E j \in 1..Len(joined) :
        /\ IsResolved(joined[j])
        /\ Len(DetailOf(joined[j]).program_ids)
             > Cardinality(SeqToSet(DetailOf(joined[j]).program_ids))

\* The rows of the exported file, and the sums of two of its columns.
ExportedRows == Unwrap(exported)

RowsTransactionCount ==
    SumSeq([i \in 1..Len(ExportedRows) |-> ExportedRows[i].transaction_count])

RowsFeesLamports ==
    SumSeq([i \in 1..Len(ExportedRows) |-> ExportedRows[i].total_fees_lamports])

Perms(n) == { f \in [1..n -> 1..n] : \A i, j \in 1..n : f[i] = f[j] => i = j }

Permuted(s, f) == [i \in 1..Len(s) |-> s[f[i]]]

\* The accumulators of an account before its first merge.
FreshAccumulators ==
    [program_expenses |-> EmptyLedger, total_fees |-> 0, processed |-> 0]

\* The join results of the fetches of the current account that resolved, in
\* the order they were merged.
MergedResults ==
    [i \in 1..Len(ResolvedJoined) |-> TaskOk(Some(DetailOf(ResolvedJoined[i])))]

\* C8: the per-account ledger and totals are what merging the resolved
\* results of the account in any order gives; while fetches of a chunk are
\* completing, in whatever order, the ledger and totals do not change; and
\* the merge of a joined chunk gives the same ledger and totals for every
\* order of the chunk's results.
C8_MergeOrderIndependent ==
    /\ [](\A f \in Perms(Len(MergedResults)) :
            MergeResults(FreshAccumulators, Address, Permuted(MergedResults, f))
              = Accumulators)
    /\ [][ pc = "JOINING" =>
             IF InFlight # {}
             THEN Accumulators' = Accumulators
             ELSE LET rs == [i \in 1..Len(results) |-> Unwrap(results[i])]
                  IN  \A f \in Perms(Len(rs)) :
                         MergeResults(Accumulators, Address, Permuted(rs, f))
                           = Accumulators' ]_vars

\* Two fetches of one chunk resolved with different fees for one program of
\* one epoch, and have been merged.
C8_Witness ==
    /\ args.concurrency = 2
    /\ Len(requests) = 1
    /\ Len(joined) = 2
    /\ IsResolved(joined[1]) /\ IsResolved(joined[2])
    /\ DetailOf(joined[1]).fee # DetailOf(joined[2]).fee
    /\ EpochOf(DetailOf(joined[1]).slot) = EpochOf(DetailOf(joined[2]).slot)
    /\ SeqToSet(DetailOf(joined[1]).program_ids)
          \cap SeqToSet(DetailOf(joined[2]).program_ids) # {}
    /\ processed = 2

(***************************************************************************)
(* A page request that fails.                                              *)
(***************************************************************************)
\* This step is a page request that failed.
FailedPageStep ==
    /\ Len(requests') = Len(requests) + 1
    /\ ~Last(requests').ok

\* The keys the records of the per-account ledger take in the cross-account
\* ledger.
AccountKeys ==
    { <<program_expenses[k].account, program_expenses[k].epoch,
        program_expenses[k].program_id>> : k \in DOMAIN program_expenses }

\* C9: once a page request of an account has failed after results of that
\* account were aggregated, the per-account records are in the cross-account
\* ledger, the cross-account totals are those of the completed accounts plus
\* the per-account totals, and the ledger has been exported.
C9_PartialResultsSurviveFailure ==
    (exit = "Err:PageFetch" /\ processed >= 1) =>
        /\ AccountKeys \subseteq DOMAIN all_program_expenses
        /\ grand_total_processed
             = SumSeq([i \in 1..Len(done_totals) |-> done_totals[i].processed])
               + processed
        /\ grand_total_fees
             = SumSeq([i \in 1..Len(done_totals) |-> done_totals[i].total_fees])
               + total_fees
        /\ IsSome(exported)

\* The second account's page request failed after results of both accounts
\* were aggregated: nothing was exported and the totals hold the first account
\* only.
C9_Witness ==
    /\ exit = "Err:PageFetch"
    /\ addr_idx = 2
    /\ Len(requests) >= 2
    /\ processed >= 1
    /\ grand_total_processed >= 1
    /\ grand_total_processed = done_totals[1].processed
    /\ exported = None

\* C10: a page request that fails ends the run at once with the error of the
\* request; after it nothing happens, so the request is not retried and no
\* page request or detail fetch follows; and the outcome differs from that of
\* a crawl that ended by exhaustion, which reaches DONE with every request
\* answered and no error.
C10_PageFailureIsFatal ==
    /\ [][ FailedPageStep => /\ pc' = "EXIT"
                             /\ exit' = "Err:PageFetch"
                             /\ fetches' = fetches ]_vars
    /\ [][ exit # "Err:PageFetch" ]_vars
    /\ [](exit = "Err:PageFetch" =>
            /\ pc = "EXIT"
            /\ ~Last(requests).ok
            /\ \A k \in 1..(Len(requests) - 1) : requests[k].ok
            /\ Len(done_totals) = addr_idx - 1)
    /\ [](pc = "DONE" =>
            /\ exit = ""
            /\ \A k \in 1..Len(requests) : requests[k].ok)

\* The second page request of an account failed after a chunk of the first
\* page had been fetched.
C10_Witness ==
    /\ exit = "Err:PageFetch"
    /\ Len(requests) = 2
    /\ requests[1].ok
    /\ ~requests[2].ok
    /\ Len(fetches) >= 1

(***************************************************************************)
(* Detail fetches without a result.                                        *)
(***************************************************************************)
\* The join results of the current chunk, once every task has ended.
JoinResults == [i \in 1..Len(results) |-> Unwrap(results[i])]

\* This step is the merge of a joined chunk.
MergeStep == pc = "JOINING" /\ InFlight = {}

\* C11: a task whose signature text does not parse has no result whatever the
\* node answers; a task that ends, with or without a result or by dying,
\* leaves the run going; and the merge of a chunk gives the ledger and totals
\* that merging only the chunk's resolved results gives, adds one transaction
\* and its fee per resolved result, and goes on to the next chunk, the next
\* page or the end of the crawl without an error.
C11_NoResultContributesNothing ==
    /\ [](\A tx \in TxResponses : FetchDetail(0, SLOTS_PER_EPOCH, tx) = None)
    /\ [][ (pc = "JOINING" /\ InFlight # {})
             => pc' = "JOINING" /\ exit' = exit /\ chunks' = chunks ]_vars
    /\ [][ MergeStep =>
             LET details == Resolved(JoinResults)
                 kept == [i \in 1..Len(details) |-> TaskOk(Some(details[i]))]
             IN  /\ Accumulators' = MergeResults(Accumulators, Address, kept)
                 /\ processed' = processed + Len(details)
                 /\ total_fees' = total_fees
                       + SumSeq([i \in 1..Len(details) |-> details[i].fee])
                 /\ (details = <<>> => Accumulators' = Accumulators)
                 /\ exit' = exit
                 /\ pc' = IF chunks # <<>> THEN "DISPATCHING"
                          ELSE IF should_break THEN "DONE" ELSE "FETCHING_PAGE" ]_vars

\* A chunk of two fetches was merged: the first had no result, the second
\* resolved and is counted, and the crawl goes on to the next page.
C11_Witness ==
    /\ args.concurrency = 2
    /\ Len(requests) = 1
    /\ Len(joined) = 2
    /\ ~IsResolved(joined[1])
    /\ IsResolved(joined[2])
    /\ processed = 1
    /\ pc = "FETCHING_PAGE"

(***************************************************************************)
(* Chunked dispatch.                                                       *)
(***************************************************************************)
\* C12: the chunks made of a page are its filtered entries cut, in order,
\* into pieces of exactly args.concurrency entries with a shorter last piece
\* allowed; at most args.concurrency fetches are in flight in any state; a
\* chunk is spawned only when no fetch is in flight; and a page request is
\* issued only when no fetch is in flight and no chunk of the page is left.
C12_BoundedChunkedDispatch ==
    /\ [][ PageStep =>
             /\ Flatten(chunks') = InRangeOf(Last(requests').page)
             /\ \A n \in 1..Len(chunks') :
                   /\ 1 <= Len(chunks'[n])
                   /\ Len(chunks'[n]) <= args.concurrency
                   /\ (n < Len(chunks') => Len(chunks'[n]) = args.concurrency) ]_vars
    /\ [](/\ Cardinality(InFlight) <= args.concurrency
          /\ Len(results) <= args.concurrency
          /\ (InFlight # {} => pc = "JOINING"))
    /\ [][ Len(fetches') > Len(fetches) =>
             /\ InFlight = {}
             /\ fetches' = fetches \o Head(chunks)
             /\ chunks' = Tail(chunks)
             /\ Len(results') = Len(Head(chunks)) ]_vars
    /\ [][ Len(requests') > Len(requests) => InFlight = {} /\ chunks = <<>> ]_vars

\* With concurrency 1 and a page of three in-range entries, the second chunk
\* is in flight after the first was joined and before the third is spawned.
C12_Witness ==
    /\ args.concurrency = 1
    /\ pc = "JOINING"
    /\ InFlight # {}
    /\ Len(joined) = 1
    /\ Len(chunks) = 1
    /\ Len(requests) = 1

(***************************************************************************)
(* The second fold.                                                        *)
(***************************************************************************)
\* The address of the current account occurs earlier in the account list.
ListedBefore == \E i \in 1..(addr_idx - 1) : args.address[i] = Address

\* C13: every per-account record belongs to the account being crawled and
\* every cross-account record sits under the key made of its own account,
\* epoch and program, the account being one whose crawl is DONE; only the
\* fold at the end of an account's crawl changes the cross-account ledger;
\* and that fold leaves the records of every other key as they are and, for
\* each per-account record (e, p), makes the record (account, e, p) the
\* per-account record itself when the account was not listed before, and the
\* sum of the earlier record and the per-account record when it was.
C13_FoldKeepsAccountIdentity ==
    /\ [](/\ \A k \in DOMAIN program_expenses :
                /\ program_expenses[k].account = Address
                /\ k = <<program_expenses[k].epoch, program_expenses[k].program_id>>
          /\ \A g \in DOMAIN all_program_expenses :
                /\ g = <<all_program_expenses[g].account,
                         all_program_expenses[g].epoch,
                         all_program_expenses[g].program_id>>
                /\ \E i \in 1..Len(done_totals) : args.address[i] = g[1])
    /\ [][ pc # "DONE" => all_program_expenses' = all_program_expenses ]_vars
    /\ [][ pc = "DONE" =>
             /\ DOMAIN all_program_expenses'
                  = DOMAIN all_program_expenses \cup AccountKeys
             /\ \A g \in DOMAIN all_program_expenses \ AccountKeys :
                   all_program_expenses'[g] = all_program_expenses[g]
             /\ \A k \in DOMAIN program_expenses :
                   LET g == <<Address, k[1], k[2]>>
                       new == all_program_expenses'[g]
                   IN  IF g \in DOMAIN all_program_expenses
                       THEN /\ ListedBefore
                            /\ new.transaction_count
                                 = all_program_expenses[g].transaction_count
                                   + program_expenses[k].transaction_count
                            /\ new.total_fees_lamports
                                 = all_program_expenses[g].total_fees_lamports
                                   + program_expenses[k].total_fees_lamports
                       ELSE new = program_expenses[k] ]_vars

\* Two distinct accounts invoked one program in one epoch: the cross-account
\* ledger holds one record for each.
C13_Witness ==
    /\ Len(done_totals) = 2
    /\ \E e \in 1..MaxEpoch, p \in {"P1", "P2"} :
          /\ <<"A", e, p>> \in DOMAIN all_program_expenses
          /\ <<"B", e, p>> \in DOMAIN all_program_expenses
          /\ all_program_expenses[<<"A", e, p>>].total_fees_lamports
               # all_program_expenses[<<"B", e, p>>].total_fees_lamports

(***************************************************************************)
(* The merge loop on a results vector that repeats one DetailResult.       *)
(***************************************************************************)
\* Repetitions of the result.
MaxRepeat == 3

\* Fees of the repeated result range over 0..MaxFee.
MaxFee == 3

\* Results with one program id.
DetailInputs ==
    { [slot |-> s, fee |-> f, program_ids |-> <<p>>] :
        s \in SlotChoices, f \in 0..MaxFee, p \in {"P1", "P2"} }

\* The state at the head of `for result in results` with fresh accumulators;
\* results holds the result every iteration is going to see.
MergeInit ==
    /\ args \in { r \in ArgsSet : r.address = <<"A">> /\ r.concurrency = 1 }
    /\ addr_idx = 1
    /\ pc = "JOINING"
    /\ history = <<>>
    /\ history_ends = FALSE
    /\ before = None
    /\ should_break = FALSE
    /\ signatures = <<>>
    /\ chunks = <<>>
    /\ chunk = <<>>
    /\ \E d \in DetailInputs : results = <<Some(TaskOk(Some(d)))>>
    /\ program_expenses = EmptyLedger
    /\ total_fees = 0
    /\ processed = 0
    /\ all_program_expenses = EmptyLedger
    /\ grand_total_fees = 0
    /\ grand_total_processed = 0
    /\ exported = None
    /\ exit = ""
    /\ requests = <<>>
    /\ fetches = <<>>
    /\ joined = <<>>
    /\ touches = [count |-> 0, fees |-> 0, resolved |-> 0, resolved_fees |-> 0]
    /\ done_totals = <<>>
    /\ budget = MaxRepeat

\* One iteration of `for result in results` on that result (lines 243-266).
Remerge ==
    /\ pc = "JOINING"
    /\ budget > 0
    /\ LET acc == MergeResult(Accumulators, Address, Unwrap(results[1]))
       IN  /\ program_expenses' = acc.program_expenses
           /\ total_fees' = acc.total_fees
           /\ processed' = acc.processed
    /\ budget' = budget - 1
    /\ UNCHANGED <<args, addr_idx, pc, history, history_ends, before, should_break,
                   signatures, chunks, chunk, results, all_program_expenses,
                   grand_total_fees, grand_total_processed, exported, exit,
                   requests, fetches, joined, touches, done_totals>>

MergeNext == Remerge

MergeSpec == MergeInit /\ [][MergeNext]_vars

\* C14: after n merges of one DetailResult with fee F, program P and epoch e
\* into a fresh ledger, the ledger holds the single key (e, P) with
\* transaction_count = n and total fee = n * F, and the totals are n
\* transactions and n * F; before the first merge the ledger is empty.
C14_MergeIsAdditive ==
    LET d == Unwrap(Unwrap(results[1]).val)
        n == MaxRepeat - budget
        key == <<EpochOf(d.slot), d.program_ids[1]>>
    IN  /\ processed = n
        /\ total_fees = n * d.fee
        /\ IF n = 0 THEN program_expenses = EmptyLedger
           ELSE /\ DOMAIN program_expenses = {key}
                /\ program_expenses[key].transaction_count = n
                /\ program_expenses[key].total_fees_lamports = n * d.fee

\* One result with a fee above 0 merged twice.
C14_Witness ==
    /\ budget = MaxRepeat - 2
    /\ Unwrap(Unwrap(results[1]).val).fee > 0
    /\ \E k \in DOMAIN program_expenses :
          /\ program_expenses[k].transaction_count = 2
          /\ program_expenses[k].total_fees_lamports
               = 2 * Unwrap(Unwrap(results[1]).val).fee

(***************************************************************************)
(* An address that does not decode.                                        *)
(***************************************************************************)
\* C15: when the address of the account at hand does not decode, the run
\* ends with the decoding error in the step that starts the account, and
\* nothing follows; no page request and no detail fetch was issued for the
\* account and no per-account record exists; page requests, detail fetches
\* and per-account records exist only for an address that decodes; and no
\* cross-account record bears an address that does not decode.
C15_MalformedAddressBeforeCrawl ==
    /\ [][ (pc = "START" /\ PubkeyFromStr(Address) = None) =>
             /\ pc' = "EXIT"
             /\ exit' = "Err:MalformedAddress"
             /\ requests' = requests /\ fetches' = fetches
             /\ program_expenses' = program_expenses
             /\ all_program_expenses' = all_program_expenses ]_vars
    /\ [][ exit # "Err:MalformedAddress" ]_vars
    /\ [](exit = "Err:MalformedAddress" =>
            /\ pc = "EXIT"
            /\ PubkeyFromStr(Address) = None
            /\ requests = <<>> /\ fetches = <<>> /\ joined = <<>>
            /\ program_expenses = EmptyLedger
            /\ Len(done_totals) = addr_idx - 1)
    /\ []((requests # <<>> \/ fetches # <<>> \/ program_expenses # EmptyLedger)
            => PubkeyFromStr(Address) # None)
    /\ [](\A g \in DOMAIN all_program_expenses : PubkeyFromStr(g[1]) # None)

\* The second address does not decode; the first account was crawled and has
\* records.
C15_Witness ==
    /\ exit = "Err:MalformedAddress"
    /\ addr_idx = 2
    /\ Len(done_totals) = 1
    /\ all_program_expenses # EmptyLedger
    /\ requests = <<>>
    /\ fetches = <<>>

(***************************************************************************)
(* Who changes the per-account ledger and totals.                          *)
(***************************************************************************)
\* The accumulators that merging the resolved fetches logged so far gives.
MergedSoFar == MergeResults(FreshAccumulators, Address, MergedResults)

\* C16: the per-account ledger and totals change only in the merge of a
\* joined chunk (and are dropped when the account's crawl is DONE); a step
\* taken while a fetch is in flight leaves them and the log of merged
\* results as they are; and in every state with a fetch in flight they are
\* what the merges of the earlier chunks left, the results that tasks of the
\* chunk have already delivered not being part of them.
C16_LedgerChangesOnlyInMerge ==
    /\ [][ Accumulators' # Accumulators => (MergeStep \/ pc = "DONE") ]_vars
    /\ [][ (InFlight # {} \/ pc = "DISPATCHING") =>
             /\ Accumulators' = Accumulators
             /\ joined' = joined
             /\ all_program_expenses' = all_program_expenses ]_vars
    /\ [](pc \in {"DISPATCHING", "JOINING"} =>
            /\ Accumulators = MergedSoFar
            /\ processed = Len(MergedResults))

\* Of a chunk of two fetches the second has delivered a result while the
\* first is in flight, and an earlier chunk has been merged.
C16_Witness ==
    /\ pc = "JOINING"
    /\ Len(results) = 2
    /\ results[1] = None
    /\ results[2] # None
    /\ Unwrap(results[2]).ok /\ IsSome(Unwrap(results[2]).val)
    /\ Len(joined) = 1
    /\ processed = 1

(***************************************************************************)
(* The grand totals.                                                       *)
(***************************************************************************)
\* The fees of the resolved fetches of the current account.
ResolvedFees ==
    SumSeq([i \in 1..Len(ResolvedJoined) |-> DetailOf(ResolvedJoined[i]).fee])

\* C17: during a crawl the per-account totals are the number of fetches of
\* the account, over all its pages, that resolved and the sum of their fees;
\* the grand totals change only in the step that ends an account's crawl,
\* which adds the per-account totals to them; they are the sums of the
\* totals of the accounts whose crawl is DONE, one term per account; and at
\* the end of a successful run every listed account has been added and the
\* grand totals are the number of fetches that resolved in the run and the
\* sum of their fees, each fee once.
C17_GrandTotalsCountEachTransactionOnce ==
    /\ [](/\ processed = Len(ResolvedJoined)
          /\ total_fees = ResolvedFees)
    /\ [][ pc # "DONE" => /\ grand_total_processed' = grand_total_processed
                          /\ grand_total_fees' = grand_total_fees ]_vars
    /\ [][ pc = "DONE" =>
             /\ grand_total_processed' = grand_total_processed + Len(ResolvedJoined)
             /\ grand_total_fees' = grand_total_fees + ResolvedFees
             /\ Len(done_totals') = Len(done_totals) + 1 ]_vars
    /\ [](/\ grand_total_processed
               = SumSeq([i \in 1..Len(done_totals) |-> done_totals[i].processed])
          /\ grand_total_fees
               = SumSeq([i \in 1..Len(done_totals) |-> done_totals[i].total_fees]))
    /\ [](exit = "Ok" =>
            /\ Len(done_totals) = Len(args.address)
            /\ grand_total_processed = touches.resolved
            /\ grand_total_fees = touches.resolved_fees)

\* A successful run of two accounts, the first with two resolved fetches and
\* the second with one, one of the three with two program-id entries.
C17_Witness ==
    /\ exit = "Ok"
    /\ Len(done_totals) = 2
    /\ done_totals[1].processed = 2
    /\ done_totals[2].processed = 1
    /\ grand_total_processed = 3
    /\ touches.count > touches.resolved
    /\ grand_total_fees > 0

(***************************************************************************)
(* The epochs of the records.                                              *)
(***************************************************************************)
InWindow(epoch) == args.start_epoch <= epoch /\ epoch <= args.end_epoch

\* C18: every entry a detail fetch was issued for has min_slot <= slot <=
\* max_slot; every per-account record has the epoch of a fetched entry that
\* resolved, slot divided by SLOTS_PER_EPOCH; and every record of the
\* per-account ledger, of the cross-account ledger and of the exported file
\* has start_epoch <= epoch <= end_epoch.
C18_RecordEpochsInWindow ==
    /\ \A i \in 1..Len(fetches) : InRange(fetches[i])
    /\ \A j \in 1..Len(joined) :
          /\ InRange(joined[j].entry)
          /\ IsResolved(joined[j]) => DetailOf(joined[j]).slot = joined[j].entry.slot
    /\ \A k \in DOMAIN program_expenses :
          /\ InWindow(program_expenses[k].epoch)
          /\ \E j \in 1..Len(joined) :
                /\ IsResolved(joined[j])
                /\ program_expenses[k].epoch = joined[j].entry.slot \div SLOTS_PER_EPOCH
    /\ \A g \in DOMAIN all_program_expenses :
          InWindow(all_program_expenses[g].epoch)
    /\ IsSome(exported) =>
          \A i \in 1..Len(ExportedRows) : InWindow(ExportedRows[i].epoch)

\* A history with an entry above the window, one at max_slot and one below
\* the window: the ledger holds a record of the last epoch of the window.
C18_Witness ==
    /\ \E i \in 1..Len(history) : history[i].slot > max_slot
    /\ \E i \in 1..Len(history) : history[i].slot < min_slot
    /\ \E j \in 1..Len(joined) :
          /\ joined[j].entry.slot = max_slot
          /\ IsResolved(joined[j])
    /\ \E k \in DOMAIN program_expenses : program_expenses[k].epoch = args.end_epoch
    /\ pc = "DONE"

(***************************************************************************)
(* One fetch per in-range entry.                                           *)
(***************************************************************************)
\* s is an initial piece of r.
IsPrefix(s, r) == Len(s) <= Len(r) /\ s = SubSeq(r, 1, Len(s))

\* C19: the entries of an account's history served so far are in
\* non-increasing slot order with distinct signatures; the detail fetches
\* issued so far are, in order and once each, an initial piece of the served
\* entries with min_slot <= slot <= max_slot; and when the crawl is DONE
\* they are all of them, no entry the history may still hold is in the
\* window, every fetch has been joined, and the per-account transaction
\* total is the number of them that resolved.
C19_OneFetchPerInRangeEntry ==
    /\ \A i, j \in 1..Len(history) :
          i < j => /\ history[i].slot >= history[j].slot
                   /\ history[i].signature # history[j].signature
    /\ IsPrefix(fetches, InRangeOf(history))
    /\ \A i, j \in 1..Len(fetches) :
          i # j => fetches[i].signature # fetches[j].signature
    /\ pc = "DONE" =>
          /\ \A k \in 1..Len(requests) : requests[k].ok
          /\ fetches = InRangeOf(history)
          /\ [j \in 1..Len(joined) |-> joined[j].entry] = fetches
          /\ ~history_ends => \A e \in NextEntries(history) : ~InRange(e)
          /\ processed = Len(ResolvedJoined)
          /\ processed <= Len(InRangeOf(history))

\* A crawl is DONE after three pages of one entry each, the first above the
\* window and the other two inside it, both fetched and resolved.
C19_Witness ==
    /\ pc = "DONE"
    /\ Len(history) = 3
    /\ Len(requests) = 4
    /\ history[1].slot > max_slot
    /\ Len(fetches) = 2
    /\ processed = 2

====
